---- MODULE Spec2Model ----
(***************************************************************************)
(* terradozer: the destruction orchestrator (main.go, mainExitCode) and   *)
(* the provider facade (provider.go).  One run of mainExitCode is a state *)
(* machine: install the provider, launch it, configure it, read the state *)
(* snapshot, enumerate its resource instances and, for each of them,      *)
(* Import -> Read -> Destroy.  The provider plugin is the environment: the *)
(* response of each remote call is chosen nondeterministically.            *)
(***************************************************************************)
EXTENDS Integers, Sequences, FiniteSets, TLC

\* Bounds of the model.
MaxInst == 2        \* resource instances in a state snapshot
MaxImported == 1    \* imported-resource descriptors one Import may return
MaxProviderNames == 3   \* provider names in the list given to InitProviders

----------------------------------------------------------------------------
\* cty values (github.com/zclconf/go-cty), as far as the program looks at them.
\* A value is a record [ty, attrs]; attrs maps the attribute names of an object
\* to attribute values; an attribute value is "true" or "false" (of type bool)
\* or "str" (of type string).

AttrNames == {"id", "force_destroy", "force_detach_policies"}
AttrValues == {"true", "false", "str"}

NoAttrs == [k \in {} |-> "str"]

NullVal == [ty |-> "null", attrs |-> NoAttrs]
StringVal == [ty |-> "string", attrs |-> NoAttrs]
ObjectVal(m) == [ty |-> "object", attrs |-> m]

AttrType(v) == IF v \in {"true", "false"} THEN "bool" ELSE "string"

IsNull(v) == v.ty = "null"

CanIterateElements(v) == v.ty = "object"

AsValueMap(v) == v.attrs

\* provider.go: enableForceDestroyAttributes.  A fresh map receives every
\* attribute of an iterable state, except that an attribute named
\* force_detach_policies or force_destroy is stored as true when its type is
\* bool and is not stored at all otherwise.  A state that cannot be iterated
\* leaves the map empty.  The result is the object made of the map.
IsForceDestroyName(k) == k = "force_detach_policies" \/ k = "force_destroy"

enableForceDestroyAttributes(state) ==
    LET m == AsValueMap(state)
        kept == IF CanIterateElements(state)
                THEN {k \in DOMAIN m :
                        IsForceDestroyName(k) => AttrType(m[k]) = "bool"}
                ELSE {}
    IN  ObjectVal([k \in kept |-> IF IsForceDestroyName(k) THEN "true" ELSE m[k]])

----------------------------------------------------------------------------
\* The state snapshot.

ManagedResourceMode == "managed"
DataResourceMode == "data"
Modes == {ManagedResourceMode, DataResourceMode}

\* The JSON-encoded attributes of a current object.
MalformedJSON == "{\"id\":"
EmptyObjectJSON == "{}"
IdStringJSON == "{\"id\":\"i-123\"}"
IdNumberJSON == "{\"id\":7}"
AttrsJSONs == {MalformedJSON, EmptyObjectJSON, IdStringJSON, IdNumberJSON}

NoCurrent == "nil"

ResourceType == "aws_s3_bucket"

Instances == [Mode : Modes, Type : {ResourceType}, Current : AttrsJSONs \cup {NoCurrent}]

Snapshots == UNION {[1..n -> Instances] : n \in 0..MaxInst}

HasCurrentAlways(resInstance) == TRUE

HasCurrent(resInstance) == resInstance.Current # NoCurrent

\* main.go: getResourceID.  json.Unmarshal into struct ResourceID{ID string}:
\* malformed JSON and an id that is not a string are errors; an object without
\* an id field decodes without error and leaves ID at its zero value "".
getResourceID(resInstance) ==
    LET a == resInstance.Current
    IN  IF a = MalformedJSON \/ a = IdNumberJSON
        THEN [err |-> TRUE, ID |-> ""]
        ELSE IF a = IdStringJSON
             THEN [err |-> FALSE, ID |-> "i-123"]
             ELSE [err |-> FALSE, ID |-> ""]

\* lookupAllResourceInstanceAddrs: every resource instance address of the
\* snapshot, in the snapshot's order.  An address is an index of the snapshot.
lookupAllResourceInstanceAddrs(s) == [i \in 1..Len(s) |-> i]

----------------------------------------------------------------------------
\* Responses of the provider plugin.

RefreshedState == ObjectVal([id |-> "str", force_destroy |-> "false"])

\* The importer of a resource type may give the resources it imports another
\* type name than the one it was asked for (the importer of aws_s3_bucket
\* also imports the bucket's policy).
OtherResourceType == "aws_s3_bucket_policy"

ImportedTypeNames == {ResourceType, OtherResourceType}

ImportedResources ==
    {[TypeName |-> t,
      State |-> ObjectVal([id |-> "str"]),
      Private |-> "private-import"] : t \in ImportedTypeNames}

ImportResponses ==
    {[err |-> TRUE, ImportedResources |-> <<>>]} \cup
    {[err |-> FALSE, ImportedResources |-> l] :
        l \in UNION {[1..n -> ImportedResources] : n \in 0..MaxImported}}

ReadResponses ==
    {[err |-> TRUE, NewState |-> NullVal, Private |-> "private-read"],
     [err |-> FALSE, NewState |-> NullVal, Private |-> "private-read"],
     [err |-> FALSE, NewState |-> RefreshedState, Private |-> "private-read"]}

ApplyResponses == {[err |-> TRUE], [err |-> FALSE]}

ConfigureResponses == {[err |-> TRUE], [err |-> FALSE]}

----------------------------------------------------------------------------
VARIABLES
    dryRun,                 \* flag -dry
    pc,                     \* position in mainExitCode
    exitCode,               \* process exit status, -1 while running
    fatal,                  \* the fatal condition that ended the run, or "none"
    installed,              \* InstallProvider returned a plugin
    handle,                 \* provider subprocess: Unstarted, Launching, Ready, Terminated
    stateLoaded,            \* getState returned a snapshot
    state,                  \* the snapshot
    resInstances,           \* the enumerated addresses
    idx,                    \* position of the outer loop in resInstances
    resID,                  \* ID decoded for the current instance
    imported,               \* importResp.ImportedResources
    impIdx,                 \* position of the inner loop in imported
    readResp,               \* response of the last ReadResource
    deletedResourcesCount,
    calls,                  \* every request sent to the provider, with its response
    deleteResults,          \* every DeleteResource call, with its result
    counted,                \* the descriptors that incremented deletedResourcesCount
    out,                    \* lines printed to the console
    summary,                \* the count reported by the final log line, -1 if none
    importerTypeName,       \* the type name the plugin's importer gives what it imports
    providerNames,          \* InitProviders: the list of provider names
    pIdx,                   \* InitProviders: position of the loop in providerNames
    providers,              \* InitProviders: the map from provider name to subprocess
    procs,                  \* InitProviders: the subprocesses started, in order
    initResult              \* InitProviders: "running", "idle" when not run, "running", then "map" or "nil"

vars == <<dryRun, pc, exitCode, fatal, installed, handle, stateLoaded, state,
          resInstances, idx, resID, imported, impIdx, readResp,
          deletedResourcesCount, calls, deleteResults, counted, out, summary,
          importerTypeName, providerNames, pIdx, providers, procs, initResult>>

\* the state of InitProviders
initVars == <<providerNames, pIdx, providers, procs, initResult>>

NoProviders == [n \in {} |-> 0]

\* InitProviders is not running
InitProvidersIdle ==
    /\ providerNames = <<>>
    /\ pIdx = 0
    /\ providers = NoProviders
    /\ procs = <<>>
    /\ initResult = "idle"

NoReadResp == [err |-> FALSE, NewState |-> NullVal, Private |-> ""]

Init ==
    /\ dryRun \in BOOLEAN
    /\ pc = "install"
    /\ exitCode = -1
    /\ fatal = "none"
    /\ installed = FALSE
    /\ handle = "Unstarted"
    /\ stateLoaded = FALSE
    /\ state = <<>>
    /\ resInstances = <<>>
    /\ idx = 0
    /\ resID = ""
    /\ imported = <<>>
    /\ impIdx = 0
    /\ readResp = NoReadResp
    /\ deletedResourcesCount = 0
    /\ calls = <<>>
    /\ deleteResults = <<>>
    /\ counted = {}
    /\ out = <<>>
    /\ summary = -1
    /\ importerTypeName \in ImportedTypeNames
    /\ InitProvidersIdle

\* return 1 (or logrus.Fatal, which exits with status 1)
Abort(cause) ==
    /\ pc' = "exited"
    /\ exitCode' = 1
    /\ fatal' = cause

loopVars == <<idx, resID, imported, impIdx, readResp>>

\* return 1 out of the loop
Return1(cause) == Abort(cause) /\ UNCHANGED loopVars

reportVars == <<deletedResourcesCount, deleteResults, counted, out, summary>>

\* main.go 39-47
InstallProvider ==
    /\ pc = "install"
    /\ \E ok \in BOOLEAN :
         IF ok
         THEN /\ installed' = TRUE
              /\ pc' = "launch"
              /\ UNCHANGED <<exitCode, fatal>>
         ELSE /\ Abort("install")
              /\ UNCHANGED installed
    /\ UNCHANGED initVars
    /\ UNCHANGED <<importerTypeName, dryRun, handle, stateLoaded, state, resInstances, calls>>
    /\ UNCHANGED loopVars
    /\ UNCHANGED reportVars

\* main.go 60-64 with provider.go NewTerraformProvider and providerFactory:
\* client.Client() starts the subprocess and kills it when the start fails;
\* a failing Dispense leaves the started subprocess behind.
NewTerraformProvider ==
    /\ pc = "launch"
    /\ \E result \in {"ok", "clientErr", "dispenseErr"} :
         CASE result = "ok" ->
                /\ handle' = "Ready"
                /\ pc' = "configure"
                /\ UNCHANGED <<exitCode, fatal>>
           [] result = "clientErr" ->
                /\ handle' = "Terminated"
                /\ Abort("launch")
           [] result = "dispenseErr" ->
                /\ handle' = "Launching"
                /\ Abort("launch")
    /\ UNCHANGED initVars
    /\ UNCHANGED <<importerTypeName, dryRun, installed, stateLoaded, state, resInstances, calls>>
    /\ UNCHANGED loopVars
    /\ UNCHANGED reportVars

\* main.go 67-69: logrus.Fatal logs and exits the process with status 1
ConfigureFailedIgnored ==
    /\ pc' = "getState"
    /\ UNCHANGED <<exitCode, fatal>>

ConfigureFailed == Abort("configure")

\* main.go 66-69 with provider.go Configure
Configure ==
    /\ pc = "configure"
    /\ \E resp \in ConfigureResponses :
         /\ calls' = Append(calls, [op |-> "Configure", inst |-> 0, desc |-> 0,
                                    req |-> [TypeName |-> ""], resp |-> resp])
         /\ IF resp.err
            THEN ConfigureFailed
            ELSE /\ pc' = "getState"
                 /\ UNCHANGED <<exitCode, fatal>>
    /\ UNCHANGED initVars
    /\ UNCHANGED <<importerTypeName, dryRun, installed, handle, stateLoaded, state, resInstances>>
    /\ UNCHANGED loopVars
    /\ UNCHANGED reportVars

\* main.go 71-76
GetState ==
    /\ pc = "getState"
    /\ \/ /\ Abort("state")
          /\ UNCHANGED <<stateLoaded, state>>
       \/ /\ \E s \in Snapshots : state' = s
          /\ stateLoaded' = TRUE
          /\ pc' = "lookup"
          /\ UNCHANGED <<exitCode, fatal>>
    /\ UNCHANGED initVars
    /\ UNCHANGED <<importerTypeName, dryRun, installed, handle, resInstances, calls>>
    /\ UNCHANGED loopVars
    /\ UNCHANGED reportVars

\* main.go 78-84
LookupAddrs ==
    /\ pc = "lookup"
    /\ \/ /\ Abort("lookup")
          /\ UNCHANGED <<resInstances, idx>>
       \/ /\ resInstances' = lookupAllResourceInstanceAddrs(state)
          /\ idx' = 1
          /\ pc' = "loop"
          /\ UNCHANGED <<exitCode, fatal>>
    /\ UNCHANGED initVars
    /\ UNCHANGED <<importerTypeName, dryRun, installed, handle, stateLoaded, state, calls>>
    /\ UNCHANGED <<resID, imported, impIdx, readResp>>
    /\ UNCHANGED reportVars

\* continue of the outer loop: on to the next address
NextInstance ==
    /\ idx' = idx + 1
    /\ resID' = ""
    /\ imported' = <<>>
    /\ impIdx' = 0
    /\ readResp' = NoReadResp
    /\ pc' = "loop"

\* continue of the inner loop: on to the next imported resource, or, after
\* the last one, to the next address
NextImported ==
    IF impIdx < Len(imported)
    THEN /\ impIdx' = impIdx + 1
         /\ readResp' = NoReadResp
         /\ pc' = "read"
         /\ UNCHANGED <<idx, resID, imported>>
    ELSE NextInstance

\* continue, the run going on
Continue == NextInstance /\ UNCHANGED <<exitCode, fatal>>

ContinueImported == NextImported /\ UNCHANGED <<exitCode, fatal>>

\* main.go 94-97: getResourceID returned an error
DecodeFailedSkips == Continue

DecodeFailed == Return1("decode")

\* main.go 101: the mode test that skips the instance
IsSkippedModeNever(resMode) == FALSE

IsSkippedMode(resMode) == resMode # ManagedResourceMode

\* main.go 86-104 with the mode test of line 101 moved before the decode of
\* line 93
BeginInstanceModeFirst ==
    /\ pc = "loop"
    /\ idx <= Len(resInstances)
    /\ LET resInstance == state[resInstances[idx]]
           id == getResourceID(resInstance)
       IN  IF ~HasCurrent(resInstance)
           THEN Continue
           ELSE IF IsSkippedMode(resInstance.Mode)
                THEN Continue
                ELSE IF id.err
                     THEN DecodeFailed
                     ELSE /\ resID' = id.ID
                          /\ pc' = "import"
                          /\ UNCHANGED <<idx, imported, impIdx, readResp>>
                          /\ UNCHANGED <<exitCode, fatal>>
    /\ UNCHANGED initVars
    /\ UNCHANGED <<importerTypeName, dryRun, installed, handle, stateLoaded, state,
                   resInstances, calls>>
    /\ UNCHANGED reportVars

\* main.go 86-104: one address of the outer loop, up to the import
BeginInstance ==
    /\ pc = "loop"
    /\ idx <= Len(resInstances)
    /\ LET resInstance == state[resInstances[idx]]
           id == getResourceID(resInstance)
       IN  IF ~HasCurrent(resInstance)
           THEN Continue
           ELSE IF id.err
                THEN DecodeFailed
                ELSE IF IsSkippedMode(resInstance.Mode)
                     THEN Continue
                     ELSE /\ resID' = id.ID
                          /\ pc' = "import"
                          /\ UNCHANGED <<idx, imported, impIdx, readResp>>
                          /\ UNCHANGED <<exitCode, fatal>>
    /\ UNCHANGED initVars
    /\ UNCHANGED <<importerTypeName, dryRun, installed, handle, stateLoaded, state, resInstances, calls>>
    /\ UNCHANGED reportVars

\* main.go 107-110: the import response has error diagnostics
ImportFailedReturns1 ==
    /\ pc' = "exited"
    /\ exitCode' = 1
    /\ UNCHANGED fatal
    /\ UNCHANGED loopVars

\* main.go 107-110 with the failed import issued again
ImportFailedRetries ==
    /\ pc' = "import"
    /\ UNCHANGED <<exitCode, fatal>>
    /\ UNCHANGED loopVars

ImportFailed == Continue

\* main.go 106-112 with provider.go ImportResource
ImportResource ==
    /\ pc = "import"
    /\ \E resp \in ImportResponses :
         /\ \A j \in 1..Len(resp.ImportedResources) :
              resp.ImportedResources[j].TypeName = importerTypeName
         /\ calls' = Append(calls,
                [op |-> "Import", inst |-> resInstances[idx], desc |-> 0,
                 req |-> [TypeName |-> state[resInstances[idx]].Type, ID |-> resID],
                 resp |-> resp])
         /\ IF resp.err
            THEN ImportFailed
            ELSE IF resp.ImportedResources = <<>>
                 THEN Continue
                 ELSE /\ imported' = resp.ImportedResources
                      /\ impIdx' = 1
                      /\ pc' = "read"
                      /\ UNCHANGED <<idx, resID, readResp>>
                      /\ UNCHANGED <<exitCode, fatal>>
    /\ UNCHANGED initVars
    /\ UNCHANGED <<importerTypeName, dryRun, installed, handle, stateLoaded, state, resInstances>>
    /\ UNCHANGED reportVars

\* main.go 116-119: the read response has error diagnostics
ReadFailedReturns1 ==
    /\ pc' = "exited"
    /\ exitCode' = 1
    /\ UNCHANGED fatal
    /\ UNCHANGED loopVars

ReadFailed == ContinueImported

\* on to DeleteResource with the read response
ToDelete(resp) ==
    /\ readResp' = resp
    /\ pc' = "delete"
    /\ UNCHANGED <<idx, resID, imported, impIdx>>
    /\ UNCHANGED <<exitCode, fatal>>

\* main.go 116-127: what the loop does with a read response
AfterReadNoNullCheck(resp) ==
    IF resp.err THEN ReadFailed ELSE ToDelete(resp)

AfterRead(resp) ==
    IF resp.err
    THEN ReadFailed
    ELSE IF IsNull(resp.NewState)
         THEN ContinueImported
         ELSE ToDelete(resp)

\* main.go 115-127 with provider.go ReadResource
ReadResource ==
    /\ pc = "read"
    /\ \E resp \in ReadResponses :
         /\ calls' = Append(calls,
                [op |-> "Read", inst |-> resInstances[idx], desc |-> impIdx,
                 req |-> [TypeName |-> imported[impIdx].TypeName,
                          PriorState |-> imported[impIdx].State,
                          Private |-> imported[impIdx].Private],
                 resp |-> resp])
         /\ AfterRead(resp)
    /\ UNCHANGED initVars
    /\ UNCHANGED <<importerTypeName, dryRun, installed, handle, stateLoaded, state, resInstances>>
    /\ UNCHANGED reportVars

\* provider.go applyResourceChange: the request DeleteResource sends
ApplyRequest(resType, rr) ==
    [TypeName |-> resType,
     PriorState |-> rr.NewState,
     PlannedState |-> NullVal,
     Config |-> NullVal,
     PlannedPrivate |-> rr.Private]

\* What main.go 129-131 does with the result of DeleteResource.
Counted(result) ==
    /\ deleteResults' = Append(deleteResults,
            [inst |-> resInstances[idx], desc |-> impIdx, ok |-> result])
    /\ IF result
       THEN /\ deletedResourcesCount' = deletedResourcesCount + 1
            /\ counted' = counted \cup {<<resInstances[idx], impIdx>>}
       ELSE UNCHANGED <<deletedResourcesCount, counted>>

\* provider.go DeleteResource, line 109: no remote call in a dry run
SkipsRemoteCallNever(dry) == FALSE

SkipsRemoteCall(dry) == dry

\* provider.go DeleteResource, line 111: the result of a dry run
DryRunResultFalse == FALSE

DryRunResult == TRUE

\* main.go 129-131 with provider.go DeleteResource and applyResourceChange
DeleteResource ==
    /\ pc = "delete"
    /\ LET resAddr == resInstances[idx]
           resType == state[resAddr].Type
       IN  IF SkipsRemoteCall(dryRun)
           THEN /\ out' = Append(out, [line |-> "would try to delete resource",
                                       inst |-> resAddr, desc |-> impIdx])
                /\ UNCHANGED calls
                /\ Counted(DryRunResult)
           ELSE \E resp \in ApplyResponses :
                  /\ calls' = Append(calls,
                        [op |-> "Apply", inst |-> resAddr, desc |-> impIdx,
                         req |-> ApplyRequest(resType, readResp), resp |-> resp])
                  /\ IF resp.err
                     THEN /\ UNCHANGED out
                          /\ Counted(FALSE)
                     ELSE /\ out' = Append(out, [line |-> "finished deleting resource",
                                                 inst |-> resAddr, desc |-> impIdx])
                          /\ Counted(TRUE)
    /\ ContinueImported
    /\ UNCHANGED initVars
    /\ UNCHANGED <<importerTypeName, dryRun, installed, handle, stateLoaded, state, resInstances, summary>>

\* main.go 136-138
Finish ==
    /\ pc = "loop"
    /\ idx > Len(resInstances)
    /\ summary' = deletedResourcesCount
    /\ exitCode' = 0
    /\ pc' = "exited"
    /\ UNCHANGED initVars
    /\ UNCHANGED <<importerTypeName, dryRun, fatal, installed, handle, stateLoaded, state, resInstances,
                   calls, deletedResourcesCount, deleteResults, counted, out>>
    /\ UNCHANGED loopVars

\* main.go 136: what the final log line reports
FinalReport == [deleted |-> summary]

Next ==
    \/ InstallProvider
    \/ NewTerraformProvider
    \/ Configure
    \/ GetState
    \/ LookupAddrs
    \/ BeginInstance
    \/ ImportResource
    \/ ReadResource
    \/ DeleteResource
    \/ Finish

Spec == Init /\ [][Next]_vars

----------------------------------------------------------------------------
\* The provider facade's destroy (provider.go, second revision), on its own:
\* the current state is any payload of a bounded set.

Payloads ==
    {NullVal, StringVal} \cup
    {ObjectVal(m) : m \in UNION {[S -> AttrValues] : S \in SUBSET AttrNames}}

InitDestroy ==
    /\ dryRun = FALSE
    /\ pc = "destroy"
    /\ exitCode = -1
    /\ fatal = "none"
    /\ installed = TRUE
    /\ handle = "Ready"
    /\ stateLoaded = FALSE
    /\ state = <<>>
    /\ resInstances = <<>>
    /\ idx = 0
    /\ resID = ""
    /\ imported = <<>>
    /\ impIdx = 0
    /\ readResp \in {[err |-> FALSE, NewState |-> v, Private |-> "private-read"] :
                        v \in Payloads}
    /\ deletedResourcesCount = 0
    /\ calls = <<>>
    /\ deleteResults = <<>>
    /\ counted = {}
    /\ out = <<>>
    /\ summary = -1
    /\ importerTypeName = ResourceType
    /\ InitProvidersIdle

\* provider.go destroy: the request sent for a current state
DestroyRequest(resType, currentState) ==
    [TypeName |-> resType,
     PriorState |-> enableForceDestroyAttributes(currentState),
     PlannedState |-> NullVal,
     Config |-> NullVal]

\* provider.go destroy
destroy ==
    /\ pc = "destroy"
    /\ \E resp \in ApplyResponses :
         calls' = Append(calls,
            [op |-> "Apply", inst |-> 0, desc |-> 0,
             req |-> DestroyRequest(ResourceType, readResp.NewState),
             resp |-> resp])
    /\ pc' = "destroyed"
    /\ UNCHANGED initVars
    /\ UNCHANGED <<importerTypeName, dryRun, exitCode, fatal, installed, handle, stateLoaded, state,
                   resInstances>>
    /\ UNCHANGED loopVars
    /\ UNCHANGED reportVars

NextDestroy == destroy

SpecDestroy == InitDestroy /\ [][NextDestroy]_vars

----------------------------------------------------------------------------
\* InitProviders (provider.go, second revision): install, start and configure
\* the provider of each name of a list, and return the map of the providers.

ProviderNames == {"aws", "google", "unsupported"}

SupportedProviders == {"aws", "google"}

\* ProviderConfig: the configuration and version of a supported provider, an
\* error for any other name
ProviderConfig(pName) == [err |-> pName \notin SupportedProviders]

InitInitProviders ==
    /\ dryRun = FALSE
    /\ pc = "initProviders"
    /\ exitCode = -1
    /\ fatal = "none"
    /\ installed = FALSE
    /\ handle = "Unstarted"
    /\ stateLoaded = FALSE
    /\ state = <<>>
    /\ resInstances = <<>>
    /\ idx = 0
    /\ resID = ""
    /\ imported = <<>>
    /\ impIdx = 0
    /\ readResp = NoReadResp
    /\ deletedResourcesCount = 0
    /\ calls = <<>>
    /\ deleteResults = <<>>
    /\ counted = {}
    /\ out = <<>>
    /\ summary = -1
    /\ importerTypeName = ResourceType
    /\ providerNames \in UNION {[1..n -> ProviderNames] : n \in 0..MaxProviderNames}
    /\ pIdx = 1
    /\ providers = NoProviders
    /\ procs = <<>>
    /\ initResult = "running"

mainVars == <<dryRun, pc, exitCode, fatal, installed, handle, stateLoaded, state,
              resInstances, idx, resID, imported, impIdx, readResp,
              deletedResourcesCount, deleteResults, counted, out, summary,
              importerTypeName>>

\* provider.go 377: providers[pName] = p
SetProvider(pName, p) ==
    [n \in DOMAIN providers \cup {pName} |-> IF n = pName THEN p ELSE providers[n]]

\* provider.go 342-378: one name of the list.  installProvider, then
\* newTerraformProvider (client.Client() starts the subprocess and kills it
\* when the start fails, a failing Dispense leaves it behind), then configure.
InitProvidersStep ==
    /\ initResult = "running"
    /\ pIdx <= Len(providerNames)
    /\ LET pName == providerNames[pIdx]
           p == Len(procs) + 1
           configureCall(e) ==
               [op |-> "Configure", inst |-> 0, desc |-> 0,
                req |-> [TypeName |-> ""], resp |-> [err |-> e]]
       IN  IF ProviderConfig(pName).err
           THEN /\ pIdx' = pIdx + 1
                /\ UNCHANGED <<providers, procs, initResult, calls>>
           ELSE \E outcome \in {"installErr", "clientErr", "dispenseErr",
                                "configureErr", "ok"} :
                  CASE outcome = "installErr" ->
                         /\ initResult' = "nil"
                         /\ UNCHANGED <<pIdx, providers, procs, calls>>
                    [] outcome = "clientErr" ->
                         /\ procs' = Append(procs, [name |-> pName, handle |-> "Terminated"])
                         /\ initResult' = "nil"
                         /\ UNCHANGED <<pIdx, providers, calls>>
                    [] outcome = "dispenseErr" ->
                         /\ procs' = Append(procs, [name |-> pName, handle |-> "Launching"])
                         /\ initResult' = "nil"
                         /\ UNCHANGED <<pIdx, providers, calls>>
                    [] outcome = "configureErr" ->
                         /\ procs' = Append(procs, [name |-> pName, handle |-> "Ready"])
                         /\ calls' = Append(calls, configureCall(TRUE))
                         /\ initResult' = "nil"
                         /\ UNCHANGED <<pIdx, providers>>
                    [] outcome = "ok" ->
                         /\ procs' = Append(procs, [name |-> pName, handle |-> "Ready"])
                         /\ calls' = Append(calls, configureCall(FALSE))
                         /\ providers' = SetProvider(pName, p)
                         /\ pIdx' = pIdx + 1
                         /\ UNCHANGED initResult
    /\ UNCHANGED providerNames
    /\ UNCHANGED mainVars

\* provider.go 380
InitProvidersReturn ==
    /\ initResult = "running"
    /\ pIdx > Len(providerNames)
    /\ initResult' = "map"
    /\ UNCHANGED <<providerNames, pIdx, providers, procs, calls>>
    /\ UNCHANGED mainVars

NextInitProviders ==
    \/ InitProvidersStep
    \/ InitProvidersReturn

SpecInitProviders == InitInitProviders /\ [][NextInitProviders]_vars

----------------------------------------------------------------------------
\* Properties.

CallIndexes == 1..Len(calls)

ResourceOps == {"Import", "Read", "Apply"}

\* a request op was sent for instance i (and imported resource d)
Issued(op, i) ==
    \E k \in CallIndexes : calls[k].op = op /\ calls[k].inst = i

IssuedFor(op, i, d) ==
    \E k \in CallIndexes : calls[k].op = op /\ calls[k].inst = i /\ calls[k].desc = d

ConfiguredOk ==
    \E k \in CallIndexes : calls[k].op = "Configure" /\ ~calls[k].resp.err

\* instances whose current attributes getResourceID cannot decode
Undecodable ==
    {i \in 1..Len(state) : HasCurrent(state[i]) /\ getResourceID(state[i]).err}

\* install, launch, Configure, state read, enumeration and every decode succeeded
AllStepsSucceeded ==
    /\ installed
    /\ handle = "Ready"
    /\ ConfiguredOk
    /\ stateLoaded
    /\ idx >= 1
    /\ Undecodable = {}

Exited == pc = "exited"

SuccessfulDeletes == {k \in 1..Len(deleteResults) : deleteResults[k].ok}

IsManagedCurrent(i) ==
    HasCurrent(state[i]) /\ state[i].Mode = ManagedResourceMode

\* C1: failure isolation.  In a run without a fatal condition, whatever the
\* provider answered, Import was issued for every managed instance that has a
\* current object, Read was issued for every imported resource of every
\* successful import, and the count reported at the end is the number of
\* DeleteResource calls that reported success.
C1_FailureIsolation ==
    (Exited /\ AllStepsSucceeded) =>
        /\ \A i \in 1..Len(state) : IsManagedCurrent(i) => Issued("Import", i)
        /\ \A k \in CallIndexes :
             (calls[k].op = "Import" /\ ~calls[k].resp.err) =>
                \A d \in 1..Len(calls[k].resp.ImportedResources) :
                    IssuedFor("Read", calls[k].inst, d)
        /\ summary = Cardinality(SuccessfulDeletes)

\* a failed step at the first instance, and the second one deleted all the same
C1_Witness ==
    /\ Exited /\ AllStepsSucceeded
    /\ Len(state) = 2
    /\ IsManagedCurrent(1) /\ IsManagedCurrent(2)
    /\ \E k \in CallIndexes :
         /\ calls[k].inst = 1
         /\ \/ calls[k].op \in ResourceOps /\ calls[k].resp.err
            \/ calls[k].op = "Read" /\ IsNull(calls[k].resp.NewState)
    /\ IssuedFor("Apply", 2, 1)
    /\ summary = 1

\* C2: mode filter.  No Import, Read or Apply is ever issued for an instance
\* whose mode is not the managed mode, DeleteResource is never called for it
\* and it never increments the deleted count.
C2_ModeFilter ==
    /\ \A k \in CallIndexes :
         calls[k].op \in ResourceOps =>
            state[calls[k].inst].Mode = ManagedResourceMode
    /\ \A k \in 1..Len(deleteResults) :
         state[deleteResults[k].inst].Mode = ManagedResourceMode
    /\ \A c \in counted : state[c[1]].Mode = ManagedResourceMode

\* the loop has gone past a data source with a decodable current object
C2_Witness ==
    /\ Exited /\ AllStepsSucceeded
    /\ \E i \in 1..Len(state) :
         HasCurrent(state[i]) /\ state[i].Mode = DataResourceMode
    /\ \E i \in 1..Len(state) : Issued("Import", i)

\* C3: in a dry run no ApplyResourceChange is ever sent to the provider.
C3_DryRunNoApply ==
    dryRun => \A k \in CallIndexes : calls[k].op # "Apply"

\* DeleteResource was called in a dry run
C3_Witness ==
    dryRun /\ deleteResults # <<>>

\* C4: already gone.  For an imported resource whose Read response carries a
\* null new state there is no Apply request, no DeleteResource call and no
\* increment of the deleted count, in a dry run or not.
C4_AlreadyGone ==
    \A k \in CallIndexes :
        (calls[k].op = "Read" /\ IsNull(calls[k].resp.NewState)) =>
            /\ ~IssuedFor("Apply", calls[k].inst, calls[k].desc)
            /\ \A j \in 1..Len(deleteResults) :
                 ~(deleteResults[j].inst = calls[k].inst
                   /\ deleteResults[j].desc = calls[k].desc)
            /\ <<calls[k].inst, calls[k].desc>> \notin counted

\* a Read without error returned a null state, and the run went on to its end
C4_Witness ==
    /\ Exited /\ exitCode = 0
    /\ \E k \in CallIndexes :
         calls[k].op = "Read" /\ ~calls[k].resp.err /\ IsNull(calls[k].resp.NewState)

\* C5: when the state file cannot be read the run exits with a non-zero
\* status and no provider has been installed, launched or configured.
C5_StateReadBeforeProvider ==
    (Exited /\ fatal = "state") =>
        /\ exitCode # 0
        /\ ~installed
        /\ handle = "Unstarted"
        /\ calls = <<>>

\* C6: exit status.  A run in which install, launch, Configure, state read,
\* enumeration and every decode succeed exits with status 0 and reports its
\* count; when Import fails for the only managed resource the count is 0.
C6_ExitStatus ==
    (Exited /\ AllStepsSucceeded) =>
        /\ exitCode = 0
        /\ summary = deletedResourcesCount
        /\ (/\ Cardinality({i \in 1..Len(state) : IsManagedCurrent(i)}) = 1
            /\ \E k \in CallIndexes : calls[k].op = "Import" /\ calls[k].resp.err)
           => summary = 0

\* scenario D: the only managed resource fails to import
C6_Witness ==
    /\ Exited /\ AllStepsSucceeded
    /\ Len(state) = 1 /\ IsManagedCurrent(1)
    /\ \E k \in CallIndexes : calls[k].op = "Import" /\ calls[k].resp.err
    /\ exitCode = 0

FirstUndecodable == CHOOSE i \in Undecodable : \A j \in Undecodable : i <= j

\* C7: a ResourceID decode failure is fatal.  When the snapshot has an instance
\* with a current object that cannot be decoded, nothing is ever issued for the
\* first such instance or for a later one, no summary is reported, and the run
\* does not exit with status 0: once the loop is at that instance or past it,
\* the run has exited with status 1.
C7_DecodeFatal ==
    (Undecodable # {}) =>
        /\ \A k \in CallIndexes :
             calls[k].op \in ResourceOps => calls[k].inst < FirstUndecodable
        /\ \A k \in 1..Len(deleteResults) : deleteResults[k].inst < FirstUndecodable
        /\ summary = -1
        /\ exitCode # 0
        /\ idx <= FirstUndecodable
        /\ Exited => exitCode = 1

\* the second instance failed to decode after the first one was imported
C7_Witness ==
    /\ Exited
    /\ Undecodable = {2}
    /\ idx = 2
    /\ Issued("Import", 1)
    /\ exitCode = 1

\* C8: Configure failure is fatal.  After a Configure response with an error
\* the run has exited with status 1 and no Import, Read or Apply was sent;
\* every Import, Read or Apply comes after a Configure without error.
C8_ConfigureFatal ==
    /\ (\E k \in CallIndexes : calls[k].op = "Configure" /\ calls[k].resp.err) =>
          /\ Exited /\ exitCode = 1
          /\ \A k \in CallIndexes : calls[k].op \notin ResourceOps
    /\ \A k \in CallIndexes :
          calls[k].op \in ResourceOps =>
             \E j \in 1..(k - 1) : calls[j].op = "Configure" /\ ~calls[j].resp.err

\* Configure answered with an error
C8_Witness ==
    /\ Exited
    /\ \E k \in CallIndexes : calls[k].op = "Configure" /\ calls[k].resp.err

\* the payload with every boolean force-destroy attribute set to true
WithForceDestroyTrue(v) ==
    ObjectVal([k \in DOMAIN v.attrs |->
                 IF IsForceDestroyName(k) /\ AttrType(v.attrs[k]) = "bool"
                 THEN "true"
                 ELSE v.attrs[k]])

HasBoolForceDestroy(v) ==
    /\ v.ty = "object"
    /\ \E k \in DOMAIN v.attrs :
         IsForceDestroyName(k) /\ AttrType(v.attrs[k]) = "bool"

HasNoForceDestroyName(v) ==
    \A k \in DOMAIN v.attrs : ~IsForceDestroyName(k)

\* C9: the force-destroy patch is pure.  The prior state of the destroy request
\* is, for a current state with a boolean force_destroy or
\* force_detach_policies, the current state with this attribute true and
\* nothing else changed; for a current state without an attribute of these
\* names (an empty object, a null or a non-iterable value too) it is the
\* current state itself.
C9_PatchPure ==
    \A k \in CallIndexes :
        calls[k].op = "Apply" =>
            LET in == readResp.NewState
                res == calls[k].req.PriorState
            IN  /\ HasBoolForceDestroy(in) => res = WithForceDestroyTrue(in)
                /\ HasNoForceDestroyName(in) => res = in

IsReadToDelete(c) ==
    c.op = "Read" /\ ~c.resp.err /\ ~IsNull(c.resp.NewState)

ReadsToDelete == SelectSeq(calls, IsReadToDelete)

\* C10: a dry run counts every would-delete.  In a dry run every
\* DeleteResource call reports success; at the exit the console has one
\* "would try to delete resource" line for each imported resource whose Read
\* succeeded with a non-null state, in the order of the reads, so that the
\* lines are a function of the provider's responses, and the deleted count is
\* the number of these lines.
C10_DryRunCounts ==
    dryRun =>
        /\ \A k \in 1..Len(deleteResults) : deleteResults[k].ok
        /\ Exited =>
             /\ Len(out) = Len(ReadsToDelete)
             /\ \A k \in 1..Len(out) :
                  /\ out[k].line = "would try to delete resource"
                  /\ out[k].inst = ReadsToDelete[k].inst
                  /\ out[k].desc = ReadsToDelete[k].desc
             /\ deletedResourcesCount = Len(ReadsToDelete)
             /\ exitCode = 0 => summary = Len(ReadsToDelete)

\* scenario B, twice over: a dry run that would delete two resources
C10_Witness ==
    /\ dryRun
    /\ Exited /\ exitCode = 0
    /\ Len(out) = 2
    /\ summary = 2

\* C11: teardown at the end of the run.  When a run that launched the provider
\* returns normally from mainExitCode, the provider subprocess has been
\* terminated: its handle is Terminated, not still Ready.
C11_TeardownAtEnd ==
    (Exited /\ exitCode = 0) => handle = "Terminated"

\* the subprocesses InitProviders started for a provider name
ProcsOf(n) == {k \in 1..Len(procs) : procs[k].name = n}

\* C12: one provider handle per distinct provider name.  For any list of names
\* given to InitProviders, also one in which a name occurs more than once, at
\* most one subprocess is started per distinct name, and every subprocess
\* started is reachable through the map InitProviders returns.
C12_OneHandlePerName ==
    /\ \A n \in ProviderNames : Cardinality(ProcsOf(n)) <= 1
    /\ initResult = "map" =>
         \A k \in 1..Len(procs) : \E n \in DOMAIN providers : providers[n] = k

IsDataCurrent(i) ==
    HasCurrent(state[i]) /\ state[i].Mode # ManagedResourceMode

\* the run returned 1 from inside the loop, at the instance at idx
AbortedInLoop ==
    Exited /\ exitCode # 0 /\ idx >= 1 /\ idx <= Len(state)

\* C13, as claimed: the mode test comes before the decode, so that an instance
\* whose mode is not managed never aborts the run, whatever its attributes.
C13_ModeBeforeDecode ==
    AbortedInLoop => ~IsDataCurrent(idx)

\* C13, amended: the ResourceID is decoded before the mode is tested.  The loop
\* never goes past an instance with a current object that cannot be decoded,
\* whatever its mode; a run that entered the loop exits with status 1 exactly
\* when it stands at such an instance; an instance that is not managed and
\* decodes is skipped without any provider call.
C13_DecodeBeforeMode ==
    /\ \A i \in Undecodable : idx <= i
    /\ (Exited /\ idx >= 1) =>
         (exitCode = 1 <=> (idx <= Len(state) /\ idx \in Undecodable))
    /\ \A i \in 1..Len(state) :
         IsDataCurrent(i) =>
            \A k \in CallIndexes : calls[k].op \in ResourceOps => calls[k].inst # i

\* a data source that decodes was skipped, then a data source that does not
\* decode ended the run
C13_Witness ==
    /\ AbortedInLoop
    /\ idx = 2
    /\ IsDataCurrent(1) /\ IsDataCurrent(2)
    /\ 1 \notin Undecodable /\ 2 \in Undecodable
    /\ exitCode = 1

\* C14: the ResourceID is an error when the id is absent.  For current
\* attributes that are a JSON object without an id field getResourceID yields
\* an error, so that no Import is issued for such an instance, and no Import
\* request carries an empty ID.
C14_AbsentIdIsError ==
    \A k \in CallIndexes :
        calls[k].op = "Import" =>
            /\ state[calls[k].inst].Current # EmptyObjectJSON
            /\ calls[k].req.ID # ""

\* the Read request sent before call k for the same imported resource
ReadBefore(k) ==
    CHOOSE j \in 1..(k - 1) :
        /\ calls[j].op = "Read"
        /\ calls[j].inst = calls[k].inst
        /\ calls[j].desc = calls[k].desc

HasReadBefore(k) ==
    \E j \in 1..(k - 1) :
        /\ calls[j].op = "Read"
        /\ calls[j].inst = calls[k].inst
        /\ calls[j].desc = calls[k].desc

\* C15: the shape of a destroy request.  Every Apply request of a run has as
\* prior state the force-destroy-patched new state of the Read response of the
\* same imported resource, a null planned state and a null config.
C15_DestroyRequestShape ==
    \A k \in CallIndexes :
        calls[k].op = "Apply" =>
            /\ HasReadBefore(k)
            /\ calls[k].req.PriorState =
                 enableForceDestroyAttributes(calls[ReadBefore(k)].resp.NewState)
            /\ IsNull(calls[k].req.PlannedState)
            /\ IsNull(calls[k].req.Config)

\* C16: the force-destroy patch leaves everything else unchanged.  For an
\* object payload the prior state of the destroy request has the attribute
\* names of the current state, and every attribute that is not a boolean
\* force_destroy or force_detach_policies has the value it had.
C16_PatchFrame ==
    \A k \in CallIndexes :
        (calls[k].op = "Apply" /\ readResp.NewState.ty = "object") =>
            LET old == readResp.NewState.attrs
                new == calls[k].req.PriorState.attrs
            IN  /\ DOMAIN new = DOMAIN old
                /\ \A a \in DOMAIN old :
                     ~(IsForceDestroyName(a) /\ AttrType(old[a]) = "bool") =>
                        (a \in DOMAIN new /\ new[a] = old[a])

\* C17: no retries.  Import is issued at most once for a resource instance,
\* Read and Apply at most once for an imported resource: no two requests of a
\* run have the same operation, instance and imported resource.
C17_NoRetries ==
    \A j, k \in CallIndexes :
        (j < k /\ calls[j].op \in ResourceOps /\ calls[j].op = calls[k].op) =>
            ~(calls[j].inst = calls[k].inst /\ calls[j].desc = calls[k].desc)

\* an Import failed and an Apply failed, and the run went on to its end
C17_Witness ==
    /\ Exited /\ exitCode = 0
    /\ \E k \in CallIndexes : calls[k].op = "Import" /\ calls[k].resp.err
    /\ \E k \in CallIndexes : calls[k].op = "Apply" /\ calls[k].resp.err

WithCurrent == {i \in 1..Len(state) : state[i].Current # NoCurrent}

\* C18, as claimed: the final report of a completed run has, with the deleted
\* count, a total-attempted count, which is the number of instances that have
\* a current object.
C18_ReportsAttempted ==
    (Exited /\ exitCode = 0) =>
        /\ "attempted" \in DOMAIN FinalReport
        /\ FinalReport.attempted = Cardinality(WithCurrent)

\* C18, amended: the final report of a completed run is the deleted count and
\* nothing else; an instance with no current object is a no-op: no provider
\* call, no DeleteResource call, and it is not counted.
C18_ReportsDeletedOnly ==
    /\ (Exited /\ exitCode = 0) =>
         /\ DOMAIN FinalReport = {"deleted"}
         /\ FinalReport.deleted = Cardinality(counted)
    /\ \A k \in CallIndexes :
         calls[k].op \in ResourceOps => calls[k].inst \in WithCurrent
    /\ \A k \in 1..Len(deleteResults) : deleteResults[k].inst \in WithCurrent
    /\ \A c \in counted : c[1] \in WithCurrent

\* a completed run over an instance with no current object and one that was
\* deleted
C18_Witness ==
    /\ Exited /\ exitCode = 0
    /\ Len(state) = 2
    /\ WithCurrent = {2}
    /\ FinalReport.deleted = 1

\* the Read response an Apply request is built from
ReadResponseFor(k) ==
    IF HasReadBefore(k) THEN calls[ReadBefore(k)].resp ELSE readResp

\* the imported resource a Read request was sent for
HasImportBefore(k) ==
    \E j \in 1..(k - 1) : calls[j].op = "Import" /\ calls[j].inst = calls[k].inst

ImportedFor(k) ==
    LET j == CHOOSE i \in 1..(k - 1) :
                calls[i].op = "Import" /\ calls[i].inst = calls[k].inst
    IN  calls[j].resp.ImportedResources[calls[k].desc]

\* C19: private metadata is round-tripped.  A Read request carries the type
\* name, the state and the private metadata of its imported resource; an Apply
\* request carries the private metadata of the Read response it is built from.
C19_PrivateRoundTrip ==
    \A k \in CallIndexes :
        /\ calls[k].op = "Read" =>
             /\ HasImportBefore(k)
             /\ calls[k].req.TypeName = ImportedFor(k).TypeName
             /\ calls[k].req.PriorState = ImportedFor(k).State
             /\ calls[k].req.Private = ImportedFor(k).Private
        /\ calls[k].op = "Apply" =>
             /\ "PlannedPrivate" \in DOMAIN calls[k].req
             /\ calls[k].req.PlannedPrivate = ReadResponseFor(k).Private

\* C20: type-name consistency.  The type name of an Apply request is the type
\* name of the Read request sent for the same imported resource.
C20_TypeNameConsistency ==
    \A k \in CallIndexes :
        calls[k].op = "Apply" =>
            /\ HasReadBefore(k)
            /\ calls[k].req.TypeName = calls[ReadBefore(k)].req.TypeName

====
